---- MODULE Spec2Model ----
(***************************************************************************)
(* A model of packages/router/src/create_url_tree.ts: the computation of   *)
(* a new UrlTree from an anchor UrlSegmentGroup and a list of navigation   *)
(* commands.                                                               *)
(*                                                                         *)
(* Representation of the JavaScript values:                                *)
(*  - a string is the sequence of its '/'-separated parts, so "/a/b" is    *)
(*    <<"", "a", "b">>, "/" is <<"", "">>, "" is <<"">> and "a" is <<"a">>;*)
(*    String.split('/') then returns one single-part string per part;      *)
(*  - a command is a record tagged by `kind`: "string", "number",          *)
(*    "matrix" (a plain object), "outlets" ({outlets: ...}) or             *)
(*    "segmentPath" ({segmentPath: ...});                                  *)
(*  - an object (UrlSegmentGroup) is a record carrying `id`: the groups of *)
(*    the input tree have distinct ids > 0 and every group made by         *)
(*    `new UrlSegmentGroup` during a call has id 0; reference equality     *)
(*    (===) of groups is equality of ids, which the code only ever asks    *)
(*    of groups of the input tree;                                         *)
(*  - a thrown error is a result record whose `threw` names the error.     *)
(***************************************************************************)
EXTENDS Integers, Sequences, FiniteSets, TLC

VARIABLES urlTree, relativeTo, commands, extras, pc, call, out

vars == <<urlTree, relativeTo, commands, extras, pc, call, out>>

(***************************************************************************)
(* Bounds of the model.                                                    *)
(***************************************************************************)
\* longest raw command list explored against every tree and anchor
MaxCommands == 2
\* longest list ['/', t1, ..., tn] of path tokens explored against every tree and anchor
MaxPathCommands == 4
\* longest raw command list explored for normalisation and validation alone
MaxNavCommands == 4

\* the longest command list of the calls explored for the position resolver
MaxPosCommands == 2

(***************************************************************************)
(* Values.                                                                 *)
(***************************************************************************)
PRIMARY_OUTLET == "primary"

EmptyMap == [k \in {} |-> 0]

\* a raw parameter or query-parameter value: a string or a number
StrVal(s) == [kind |-> "string", s |-> s, n |-> 0]
NumVal(n) == [kind |-> "number", s |-> "", n |-> n]

StringCmd(parts) ==
    [kind |-> "string", parts |-> parts, n |-> 0, params |-> EmptyMap, outlets |-> EmptyMap]
NumberCmd(n) ==
    [kind |-> "number", parts |-> <<>>, n |-> n, params |-> EmptyMap, outlets |-> EmptyMap]
MatrixCmd(params) ==
    [kind |-> "matrix", parts |-> <<>>, n |-> 0, params |-> params, outlets |-> EmptyMap]
OutletsCmd(outlets) ==
    [kind |-> "outlets", parts |-> <<>>, n |-> 0, params |-> EmptyMap, outlets |-> outlets]
SegmentPathCmd(parts) ==
    [kind |-> "segmentPath", parts |-> parts, n |-> 0, params |-> EmptyMap, outlets |-> EmptyMap]

\* the value an outlets object gives to an outlet name: null, a string or an array
NullOutlet == [kind |-> "null", parts |-> <<>>, cmds |-> <<>>]
StringOutlet(parts) == [kind |-> "string", parts |-> parts, cmds |-> <<>>]
ArrayOutlet(cmds) == [kind |-> "array", parts |-> <<>>, cmds |-> cmds]

\* the decimal numeral of a number, as `${n}` gives it
Numeral == (0 :> "0") @@ (1 :> "1") @@ (11 :> "11") @@ (33 :> "33")

\* `${v}` of a parameter value
templateVal(v) == IF v.kind = "number" THEN Numeral[v.n] ELSE v.s

\* `${command}` of a command: a string is itself, a number its numeral, and any
\* object "[object Object]"
templateCmd(c) ==
    IF c.kind = "string" THEN c.parts
    ELSE IF c.kind = "number" THEN <<Numeral[c.n]>>
    ELSE <<"[object Object]">>

\* String.prototype.split('/'): one string per part
split(parts) == [i \in 1..Len(parts) |-> StringCmd(<<parts[i]>>)]

\* truthiness of a string: every string but "" is truthy
truthy(parts) == parts # <<"">>

UrlSegment(path, parameters) == [path |-> path, parameters |-> parameters]

UrlSegmentGroup(segments, children) ==
    [id |-> 0, segments |-> segments, children |-> children]

\* the absent group (null or undefined)
NoGroup == [id |-> 0 - 1, segments |-> <<>>, children |-> EmptyMap]

hasChildren(g) == DOMAIN g.children # {}

UrlTree(root, queryParams, fragment) ==
    [root |-> root, queryParams |-> queryParams, fragment |-> fragment]

NullVal == [kind |-> "null", s |-> "", n |-> 0]

NoTree == UrlTree(NoGroup, EmptyMap, NullVal)

RECURSIVE groupsOf(_)
\* every group reachable from g through children, g included
groupsOf(g) == {g} \cup UNION {groupsOf(g.children[o]) : o \in DOMAIN g.children}

\* g.parent, for a group g of the tree under root: null for the root
parentOf(root, g) ==
    LET ps == {p \in groupsOf(root) : \E o \in DOMAIN p.children : p.children[o].id = g.id}
    IN  IF ps = {} THEN NoGroup ELSE CHOOSE p \in ps : TRUE

(***************************************************************************)
(* Navigation normaliser.                                                  *)
(***************************************************************************)
isMatrixParams(command) == command.kind = "matrix"

isCommandWithOutlets(command) == command.kind = "outlets"

Thrown(error) ==
    [threw |-> error, isAbsolute |-> FALSE, numberOfDoubleDots |-> 0, commands |-> <<>>]

\* index (from 1) of the first outlets command, 0 when there is none
firstOutletsIndex(cmds) ==
    LET is == {i \in 1..Len(cmds) : isCommandWithOutlets(cmds[i])}
    IN  IF is = {} THEN 0 ELSE CHOOSE i \in is : \A j \in is : i <= j

\* Navigation whose outlets check compares with the first command, not the last
Navigation_firstNotLast(isAbsolute, numberOfDoubleDots, cmds) ==
    IF isAbsolute /\ Len(cmds) > 0 /\ isMatrixParams(cmds[1])
    THEN Thrown("RootSegmentMatrixParams")
    ELSE IF firstOutletsIndex(cmds) # 0 /\ firstOutletsIndex(cmds) # 1
    THEN Thrown("MisplacedOutletsCommand")
    ELSE [threw |-> "none", isAbsolute |-> isAbsolute,
          numberOfDoubleDots |-> numberOfDoubleDots, commands |-> cmds]

\* Navigation whose matrix-parameter check forgets isAbsolute
Navigation_anyMatrixFirst(isAbsolute, numberOfDoubleDots, cmds) ==
    IF Len(cmds) > 0 /\ isMatrixParams(cmds[1])
    THEN Thrown("RootSegmentMatrixParams")
    ELSE IF firstOutletsIndex(cmds) # 0 /\ firstOutletsIndex(cmds) # Len(cmds)
    THEN Thrown("MisplacedOutletsCommand")
    ELSE [threw |-> "none", isAbsolute |-> isAbsolute,
          numberOfDoubleDots |-> numberOfDoubleDots, commands |-> cmds]

\* new Navigation(...): the constructor validates. Each outlets command of a
\* normalised list is an object of its own, so `cmdWithOutlet !== last(commands)`
\* compares positions.
Navigation(isAbsolute, numberOfDoubleDots, cmds) ==
    IF isAbsolute /\ Len(cmds) > 0 /\ isMatrixParams(cmds[1])
    THEN Thrown("RootSegmentMatrixParams")
    ELSE IF firstOutletsIndex(cmds) # 0 /\ firstOutletsIndex(cmds) # Len(cmds)
    THEN Thrown("MisplacedOutletsCommand")
    ELSE [threw |-> "none", isAbsolute |-> isAbsolute,
          numberOfDoubleDots |-> numberOfDoubleDots, commands |-> cmds]

\* toRoot without `this.isAbsolute`
toRoot_ignoresAbsolute(nav) ==
    /\ Len(nav.commands) = 1
    /\ nav.commands[1].kind = "string"
    /\ nav.commands[1].parts = <<"", "">>

toRoot(nav) ==
    /\ nav.isAbsolute
    /\ Len(nav.commands) = 1
    /\ nav.commands[1].kind = "string"
    /\ nav.commands[1].parts = <<"", "">>

RECURSIVE splitFirstCommand_keepsEmpty(_, _, _)
\* splitFirstCommand without the `urlPart != ''` test
splitFirstCommand_keepsEmpty(parts, partIndex, acc) ==
    IF partIndex >= Len(parts) THEN acc
    ELSE LET urlPart == parts[partIndex + 1] IN
         splitFirstCommand_keepsEmpty(parts, partIndex + 1,
            IF partIndex = 0 /\ urlPart = "." THEN acc
            ELSE IF partIndex = 0 /\ urlPart = "" THEN [acc EXCEPT !.isAbsolute = TRUE]
            ELSE IF urlPart = ".." THEN [acc EXCEPT !.numberOfDoubleDots = @ + 1]
            ELSE [acc EXCEPT !.res = Append(@, StringCmd(<<urlPart>>))])

RECURSIVE splitFirstCommand(_, _, _)
\* the forEach over cmd.split('/') of the first command
splitFirstCommand(parts, partIndex, acc) ==
    IF partIndex >= Len(parts) THEN acc
    ELSE LET urlPart == parts[partIndex + 1] IN
         splitFirstCommand(parts, partIndex + 1,
            IF partIndex = 0 /\ urlPart = "." THEN acc
            ELSE IF partIndex = 0 /\ urlPart = "" THEN [acc EXCEPT !.isAbsolute = TRUE]
            ELSE IF urlPart = ".." THEN [acc EXCEPT !.numberOfDoubleDots = @ + 1]
            ELSE IF urlPart # "" THEN [acc EXCEPT !.res = Append(@, StringCmd(<<urlPart>>))]
            ELSE acc)

\* the value the normaliser stores for one outlet of an outlets command
normaliseOutlet(v) == IF v.kind = "string" THEN ArrayOutlet(split(v.parts)) ELSE v

RECURSIVE reduceCommands_splitsEvery(_, _, _)
\* reduceCommands without the `cmdIdx === 0` test: every string command is split
reduceCommands_splitsEvery(cmds, cmdIdx, acc) ==
    IF cmdIdx >= Len(cmds) THEN acc
    ELSE LET cmd == cmds[cmdIdx + 1] IN
         reduceCommands_splitsEvery(cmds, cmdIdx + 1,
            IF cmd.kind = "outlets"
            THEN [acc EXCEPT !.res = Append(@,
                    OutletsCmd([name \in DOMAIN cmd.outlets |->
                                    normaliseOutlet(cmd.outlets[name])]))]
            ELSE IF cmd.kind = "segmentPath"
            THEN [acc EXCEPT !.res = Append(@, StringCmd(cmd.parts))]
            ELSE IF cmd.kind # "string"
            THEN [acc EXCEPT !.res = Append(@, cmd)]
            ELSE splitFirstCommand(cmd.parts, 0, acc))

RECURSIVE reduceCommands(_, _, _)
\* commands.reduce(...) with the accumulated res, numberOfDoubleDots, isAbsolute
reduceCommands(cmds, cmdIdx, acc) ==
    IF cmdIdx >= Len(cmds) THEN acc
    ELSE LET cmd == cmds[cmdIdx + 1] IN
         reduceCommands(cmds, cmdIdx + 1,
            IF cmd.kind = "outlets"
            THEN [acc EXCEPT !.res = Append(@,
                    OutletsCmd([name \in DOMAIN cmd.outlets |->
                                    normaliseOutlet(cmd.outlets[name])]))]
            ELSE IF cmd.kind = "segmentPath"
            THEN [acc EXCEPT !.res = Append(@, StringCmd(cmd.parts))]
            ELSE IF cmd.kind # "string"
            THEN [acc EXCEPT !.res = Append(@, cmd)]
            ELSE IF cmdIdx = 0
            THEN splitFirstCommand(cmd.parts, 0, acc)
            ELSE [acc EXCEPT !.res = Append(@, cmd)])

computeNavigation(cmds) ==
    IF Len(cmds) = 1 /\ cmds[1].kind = "string" /\ cmds[1].parts = <<"", "">>
    THEN Navigation(TRUE, 0, cmds)
    ELSE LET acc == reduceCommands(cmds, 0,
                        [res |-> <<>>, numberOfDoubleDots |-> 0, isAbsolute |-> FALSE])
         IN  Navigation(acc.isAbsolute, acc.numberOfDoubleDots, acc.res)

(***************************************************************************)
(* Position resolver.                                                      *)
(***************************************************************************)
Position(segmentGroup, processChildren, index) ==
    [threw |-> "none", segmentGroup |-> segmentGroup,
     processChildren |-> processChildren, index |-> index]

ThrownPosition(error) ==
    [threw |-> error, segmentGroup |-> NoGroup, processChildren |-> FALSE, index |-> 0]

RECURSIVE createPositionApplyingDoubleDots_noSubtract(_, _, _, _)
\* createPositionApplyingDoubleDots without `dd -= ci`
createPositionApplyingDoubleDots_noSubtract(root, group, index, numberOfDoubleDots) ==
    IF numberOfDoubleDots > index
    THEN LET g == parentOf(root, group) IN
         IF g = NoGroup
         THEN ThrownPosition("InvalidDoubleDots")
         ELSE createPositionApplyingDoubleDots_noSubtract(
                  root, g, Len(g.segments), numberOfDoubleDots)
    ELSE Position(group, FALSE, index - numberOfDoubleDots)

RECURSIVE createPositionApplyingDoubleDots_offByOne(_, _, _, _)
\* createPositionApplyingDoubleDots with `while (dd >= ci)`
createPositionApplyingDoubleDots_offByOne(root, group, index, numberOfDoubleDots) ==
    IF numberOfDoubleDots >= index
    THEN LET g == parentOf(root, group) IN
         IF g = NoGroup
         THEN ThrownPosition("InvalidDoubleDots")
         ELSE createPositionApplyingDoubleDots_offByOne(
                  root, g, Len(g.segments), numberOfDoubleDots - index)
    ELSE Position(group, FALSE, index - numberOfDoubleDots)

\* createPositionApplyingDoubleDots with `if` for `while`: one level at most
createPositionApplyingDoubleDots_climbsOnce(root, group, index, numberOfDoubleDots) ==
    IF numberOfDoubleDots > index
    THEN LET g == parentOf(root, group) IN
         IF g = NoGroup
         THEN ThrownPosition("InvalidDoubleDots")
         ELSE Position(g, FALSE, Len(g.segments) - (numberOfDoubleDots - index))
    ELSE Position(group, FALSE, index - numberOfDoubleDots)

RECURSIVE createPositionApplyingDoubleDots(_, _, _, _)
\* root is the tree in which g.parent is looked up
createPositionApplyingDoubleDots(root, group, index, numberOfDoubleDots) ==
    IF numberOfDoubleDots > index
    THEN LET g == parentOf(root, group) IN
         IF g = NoGroup
         THEN ThrownPosition("InvalidDoubleDots")
         ELSE createPositionApplyingDoubleDots(
                  root, g, Len(g.segments), numberOfDoubleDots - index)
    ELSE Position(group, FALSE, index - numberOfDoubleDots)

\* findStartingPositionForTargetGroup whose modifier is 1 whatever the first command
findStartingPositionForTargetGroup_modifierOne(nav, root, target) ==
    IF nav.isAbsolute
    THEN Position(root, TRUE, 0)
    ELSE IF parentOf(root, target) = NoGroup
    THEN Position(target, TRUE, 0)
    ELSE createPositionApplyingDoubleDots(root, target, Len(target.segments),
                                          nav.numberOfDoubleDots)

\* findStartingPositionForTargetGroup without the branch for absolute navigations
findStartingPositionForTargetGroup_noAbsolute(nav, root, target) ==
    IF parentOf(root, target) = NoGroup
    THEN Position(target, TRUE, 0)
    ELSE LET modifier == IF Len(nav.commands) > 0 /\ isMatrixParams(nav.commands[1])
                         THEN 0 ELSE 1
             index == Len(target.segments) - 1 + modifier
         IN  createPositionApplyingDoubleDots(root, target, index, nav.numberOfDoubleDots)

\* target is a group of the tree: the branch for a falsy target, kept in the code
\* for wrongly mocked snapshots, is not taken
findStartingPositionForTargetGroup(nav, root, target) ==
    IF nav.isAbsolute
    THEN Position(root, TRUE, 0)
    ELSE IF parentOf(root, target) = NoGroup
    THEN Position(target, TRUE, 0)
    ELSE LET modifier == IF Len(nav.commands) > 0 /\ isMatrixParams(nav.commands[1])
                         THEN 0 ELSE 1
             index == Len(target.segments) - 1 + modifier
         IN  createPositionApplyingDoubleDots(root, target, index, nav.numberOfDoubleDots)

\* findStartingPosition that processes children for every pathless route
findStartingPosition_alwaysChildren(nav, tree_, segmentGroup, lastPathIndex) ==
    IF nav.isAbsolute
    THEN Position(tree_.root, TRUE, 0)
    ELSE IF lastPathIndex = 0 - 1
    THEN Position(segmentGroup, TRUE, 0)
    ELSE LET modifier == IF Len(nav.commands) > 0 /\ isMatrixParams(nav.commands[1])
                         THEN 0 ELSE 1
             index == lastPathIndex + modifier
         IN  createPositionApplyingDoubleDots(
                 tree_.root, segmentGroup, index, nav.numberOfDoubleDots)

findStartingPosition(nav, tree_, segmentGroup, lastPathIndex) ==
    IF nav.isAbsolute
    THEN Position(tree_.root, TRUE, 0)
    ELSE IF lastPathIndex = 0 - 1
    THEN LET processChildren == segmentGroup.id = tree_.root.id
         IN  Position(segmentGroup, processChildren, 0)
    ELSE LET modifier == IF Len(nav.commands) > 0 /\ isMatrixParams(nav.commands[1])
                         THEN 0 ELSE 1
             index == lastPathIndex + modifier
         IN  createPositionApplyingDoubleDots(
                 tree_.root, segmentGroup, index, nav.numberOfDoubleDots)

(***************************************************************************)
(* Segment-group updater.                                                  *)
(***************************************************************************)
Return(g) == [threw |-> "none", g |-> g]

Throw(error) == [threw |-> error, g |-> NoGroup]

\* Array.prototype.slice(from, to) for 0 <= from, 0 <= to
slice(seq, from, to) ==
    LET hi == IF to < Len(seq) THEN to ELSE Len(seq)
    IN  IF from >= hi THEN <<>> ELSE SubSeq(seq, from + 1, hi)

stringify(params) == [k \in DOMAIN params |-> templateVal(params[k])]

\* a and b have the same keys and, key by key, the same stringified values
shallowEqual(a, b) ==
    /\ DOMAIN a = DOMAIN b
    /\ \A k \in DOMAIN a : templateVal(a[k]) = b[k]

\* params is a raw parameter object, segment.parameters holds strings
compare(path, params, segment) ==
    path = segment.path /\ shallowEqual(params, segment.parameters)

NoMatch == [match |-> FALSE, pathIndex |-> 0, commandIndex |-> 0]

RECURSIVE prefixedWithLoop_ignoresParameters(_, _, _, _)
\* the while loop of prefixedWith comparing paths only
prefixedWithLoop_ignoresParameters(segmentGroup, cmds, currentPathIndex, currentCommandIndex) ==
    IF currentPathIndex >= Len(segmentGroup.segments)
    THEN [match |-> TRUE, pathIndex |-> currentPathIndex,
          commandIndex |-> currentCommandIndex]
    ELSE IF currentCommandIndex >= Len(cmds)
    THEN NoMatch
    ELSE LET path == segmentGroup.segments[currentPathIndex + 1]
             command == cmds[currentCommandIndex + 1]
             curr == templateCmd(command)
             hasNext == currentCommandIndex < Len(cmds) - 1
         IN  IF isCommandWithOutlets(command)
             THEN [match |-> TRUE, pathIndex |-> currentPathIndex,
                   commandIndex |-> currentCommandIndex]
             ELSE IF curr # path.path
             THEN NoMatch
             ELSE IF truthy(curr) /\ hasNext
                     /\ cmds[currentCommandIndex + 2].kind = "matrix"
             THEN prefixedWithLoop_ignoresParameters(
                      segmentGroup, cmds, currentPathIndex + 1, currentCommandIndex + 2)
             ELSE prefixedWithLoop_ignoresParameters(
                      segmentGroup, cmds, currentPathIndex + 1, currentCommandIndex + 1)

RECURSIVE prefixedWithLoop(_, _, _, _)
\* the while loop of prefixedWith; `curr === undefined` never holds of a
\* template string, so that break is never taken. The objects without an
\* `outlets` key that a command list holds after normalisation are the plain
\* (matrix-parameter) objects
prefixedWithLoop(segmentGroup, cmds, currentPathIndex, currentCommandIndex) ==
    IF currentPathIndex >= Len(segmentGroup.segments)
    THEN [match |-> TRUE, pathIndex |-> currentPathIndex,
          commandIndex |-> currentCommandIndex]
    ELSE IF currentCommandIndex >= Len(cmds)
    THEN NoMatch
    ELSE LET path == segmentGroup.segments[currentPathIndex + 1]
             command == cmds[currentCommandIndex + 1]
             curr == templateCmd(command)
             hasNext == currentCommandIndex < Len(cmds) - 1
         IN  IF isCommandWithOutlets(command)
             THEN [match |-> TRUE, pathIndex |-> currentPathIndex,
                   commandIndex |-> currentCommandIndex]
             ELSE IF truthy(curr) /\ hasNext
                     /\ cmds[currentCommandIndex + 2].kind = "matrix"
             THEN IF ~compare(curr, cmds[currentCommandIndex + 2].params, path)
                  THEN NoMatch
                  ELSE prefixedWithLoop(segmentGroup, cmds, currentPathIndex + 1,
                                        currentCommandIndex + 2)
             ELSE IF ~compare(curr, EmptyMap, path)
                  THEN NoMatch
                  ELSE prefixedWithLoop(segmentGroup, cmds, currentPathIndex + 1,
                                        currentCommandIndex + 1)

prefixedWith(segmentGroup, startIndex, cmds) ==
    prefixedWithLoop(segmentGroup, cmds, startIndex, 0)

\* the commands an outlet value stands for: a string is wrapped in a list
outletCommands(v) == IF v.kind = "string" THEN <<StringCmd(v.parts)>> ELSE v.cmds

RECURSIVE createNewSegmentGroup(_, _, _)
RECURSIVE createNewSegmentLoop(_, _, _, _, _)
RECURSIVE createNewSegmentChildren(_)

createNewSegmentChildren(outlets) ==
    LET named == {o \in DOMAIN outlets : outlets[o].kind # "null"}
        made == [o \in named |->
                    createNewSegmentGroup(UrlSegmentGroup(<<>>, EmptyMap), 0,
                                          outletCommands(outlets[o]))]
    IN  IF \E o \in named : made[o].threw # "none"
        THEN [threw |-> "TypeError", children |-> EmptyMap]
        ELSE [threw |-> "none", children |-> [o \in named |-> made[o].g]]

\* the while loop of createNewSegmentGroup. Reading `.path` of
\* segmentGroup.segments[startIndex] when there is no such segment is a TypeError
createNewSegmentLoop(segmentGroup, startIndex, cmds, paths, i) ==
    IF i >= Len(cmds)
    THEN Return(UrlSegmentGroup(paths, EmptyMap))
    ELSE LET command == cmds[i + 1] IN
         IF isCommandWithOutlets(command)
         THEN LET children == createNewSegmentChildren(command.outlets) IN
              IF children.threw # "none"
              THEN Throw(children.threw)
              ELSE Return(UrlSegmentGroup(paths, children.children))
         ELSE IF i = 0 /\ isMatrixParams(cmds[1])
         THEN IF startIndex >= Len(segmentGroup.segments)
              THEN Throw("TypeError")
              ELSE LET p == segmentGroup.segments[startIndex + 1] IN
                   createNewSegmentLoop(segmentGroup, startIndex, cmds,
                       Append(paths, UrlSegment(p.path, stringify(cmds[1].params))), i + 1)
         ELSE LET curr == templateCmd(command)
                  hasNext == i < Len(cmds) - 1
              IN  IF truthy(curr) /\ hasNext /\ isMatrixParams(cmds[i + 2])
                  THEN createNewSegmentLoop(segmentGroup, startIndex, cmds,
                           Append(paths, UrlSegment(curr, stringify(cmds[i + 2].params))),
                           i + 2)
                  ELSE createNewSegmentLoop(segmentGroup, startIndex, cmds,
                           Append(paths, UrlSegment(curr, EmptyMap)), i + 1)

\* createNewSegmentGroup that starts from all the segments of the group
createNewSegmentGroup_keepsAllSegments(segmentGroup, startIndex, cmds) ==
    createNewSegmentLoop(segmentGroup, startIndex, cmds, segmentGroup.segments, 0)

createNewSegmentGroup(segmentGroup, startIndex, cmds) ==
    createNewSegmentLoop(segmentGroup, startIndex, cmds,
                         slice(segmentGroup.segments, 0, startIndex), 0)

getOutlets(cmds) ==
    IF isCommandWithOutlets(cmds[1])
    THEN cmds[1].outlets
    ELSE (PRIMARY_OUTLET :> ArrayOutlet(cmds))

RECURSIVE updateSegmentGroup(_, _, _)
RECURSIVE updateSegmentGroupChildren(_, _, _)

\* updateSegmentGroupChildren without the second forEach: no child is carried over
updateSegmentGroupChildren_dropsUnnamed(segmentGroup, startIndex, cmds) ==
    IF Len(cmds) = 0
    THEN Return(UrlSegmentGroup(segmentGroup.segments, EmptyMap))
    ELSE LET outlets == getOutlets(cmds)
             named == {o \in DOMAIN outlets : outlets[o].kind # "null"}
             child(o) == IF o \in DOMAIN segmentGroup.children
                         THEN segmentGroup.children[o] ELSE NoGroup
             updated == [o \in named |->
                            updateSegmentGroup(child(o), startIndex,
                                               outletCommands(outlets[o]))]
         IN  IF \E o \in named : updated[o].threw # "none"
             THEN Throw("TypeError")
             ELSE Return(UrlSegmentGroup(segmentGroup.segments,
                                         [o \in named |-> updated[o].g]))

\* updateSegmentGroupChildren that keeps the child of an outlet mapped to null
updateSegmentGroupChildren_keepsNull(segmentGroup, startIndex, cmds) ==
    IF Len(cmds) = 0
    THEN Return(UrlSegmentGroup(segmentGroup.segments, EmptyMap))
    ELSE LET outlets == getOutlets(cmds)
             named == {o \in DOMAIN outlets : outlets[o].kind # "null"}
             kept == DOMAIN segmentGroup.children \ named
             child(o) == IF o \in DOMAIN segmentGroup.children
                         THEN segmentGroup.children[o] ELSE NoGroup
             updated == [o \in named |->
                            updateSegmentGroup(child(o), startIndex,
                                               outletCommands(outlets[o]))]
         IN  IF \E o \in named : updated[o].threw # "none"
             THEN Throw("TypeError")
             ELSE Return(UrlSegmentGroup(segmentGroup.segments,
                      [o \in named \cup kept |->
                          IF o \in named THEN updated[o].g
                          ELSE segmentGroup.children[o]]))

\* updateSegmentGroupChildren that copies the children it carries over
updateSegmentGroupChildren_copiesKept(segmentGroup, startIndex, cmds) ==
    IF Len(cmds) = 0
    THEN Return(UrlSegmentGroup(segmentGroup.segments, EmptyMap))
    ELSE LET outlets == getOutlets(cmds)
             named == {o \in DOMAIN outlets : outlets[o].kind # "null"}
             kept == DOMAIN segmentGroup.children \ DOMAIN outlets
             child(o) == IF o \in DOMAIN segmentGroup.children
                         THEN segmentGroup.children[o] ELSE NoGroup
             updated == [o \in named |->
                            updateSegmentGroup(child(o), startIndex,
                                               outletCommands(outlets[o]))]
         IN  IF \E o \in named : updated[o].threw # "none"
             THEN Throw("TypeError")
             ELSE Return(UrlSegmentGroup(segmentGroup.segments,
                      [o \in named \cup kept |->
                          IF o \in named THEN updated[o].g
                          ELSE UrlSegmentGroup(segmentGroup.children[o].segments,
                                               segmentGroup.children[o].children)]))

updateSegmentGroupChildren(segmentGroup, startIndex, cmds) ==
    IF Len(cmds) = 0
    THEN Return(UrlSegmentGroup(segmentGroup.segments, EmptyMap))
    ELSE LET outlets == getOutlets(cmds)
             named == {o \in DOMAIN outlets : outlets[o].kind # "null"}
             kept == DOMAIN segmentGroup.children \ DOMAIN outlets
             child(o) == IF o \in DOMAIN segmentGroup.children
                         THEN segmentGroup.children[o] ELSE NoGroup
             updated == [o \in named |->
                            updateSegmentGroup(child(o), startIndex,
                                               outletCommands(outlets[o]))]
         IN  IF \E o \in named : updated[o].threw # "none"
             THEN Throw("TypeError")
             ELSE Return(UrlSegmentGroup(segmentGroup.segments,
                      [o \in named \cup kept |->
                          IF o \in named THEN updated[o].g
                          ELSE segmentGroup.children[o]]))

\* updateSegmentGroup whose split leaves the children of the group behind
updateSegmentGroup_splitDropsChildren(segmentGroup_, startIndex, cmds) ==
    LET segmentGroup == IF segmentGroup_ = NoGroup
                        THEN UrlSegmentGroup(<<>>, EmptyMap) ELSE segmentGroup_
    IN  IF Len(segmentGroup.segments) = 0 /\ hasChildren(segmentGroup)
        THEN updateSegmentGroupChildren(segmentGroup, startIndex, cmds)
        ELSE LET m == prefixedWith(segmentGroup, startIndex, cmds)
                 slicedCommands == slice(cmds, m.commandIndex, Len(cmds))
             IN  IF m.match /\ m.pathIndex < Len(segmentGroup.segments)
                 THEN LET g == UrlSegmentGroup(
                                   slice(segmentGroup.segments, 0, m.pathIndex),
                                   PRIMARY_OUTLET :> UrlSegmentGroup(
                                       slice(segmentGroup.segments, m.pathIndex,
                                             Len(segmentGroup.segments)),
                                       EmptyMap))
                      IN  updateSegmentGroupChildren(g, 0, slicedCommands)
                 ELSE IF m.match /\ Len(slicedCommands) = 0
                 THEN Return(UrlSegmentGroup(segmentGroup.segments, EmptyMap))
                 ELSE IF m.match /\ ~hasChildren(segmentGroup)
                 THEN createNewSegmentGroup(segmentGroup, startIndex, cmds)
                 ELSE IF m.match
                 THEN updateSegmentGroupChildren(segmentGroup, 0, slicedCommands)
                 ELSE createNewSegmentGroup(segmentGroup, startIndex, cmds)

\* updateSegmentGroup that keeps the children when nothing is left to apply
updateSegmentGroup_keepsChildren(segmentGroup_, startIndex, cmds) ==
    LET segmentGroup == IF segmentGroup_ = NoGroup
                        THEN UrlSegmentGroup(<<>>, EmptyMap) ELSE segmentGroup_
    IN  IF Len(segmentGroup.segments) = 0 /\ hasChildren(segmentGroup)
        THEN updateSegmentGroupChildren(segmentGroup, startIndex, cmds)
        ELSE LET m == prefixedWith(segmentGroup, startIndex, cmds)
                 slicedCommands == slice(cmds, m.commandIndex, Len(cmds))
             IN  IF m.match /\ m.pathIndex < Len(segmentGroup.segments)
                 THEN LET g == UrlSegmentGroup(
                                   slice(segmentGroup.segments, 0, m.pathIndex),
                                   PRIMARY_OUTLET :> UrlSegmentGroup(
                                       slice(segmentGroup.segments, m.pathIndex,
                                             Len(segmentGroup.segments)),
                                       segmentGroup.children))
                      IN  updateSegmentGroupChildren(g, 0, slicedCommands)
                 ELSE IF m.match /\ Len(slicedCommands) = 0
                 THEN Return(UrlSegmentGroup(segmentGroup.segments,
                                             segmentGroup.children))
                 ELSE IF m.match /\ ~hasChildren(segmentGroup)
                 THEN createNewSegmentGroup(segmentGroup, startIndex, cmds)
                 ELSE IF m.match
                 THEN updateSegmentGroupChildren(segmentGroup, 0, slicedCommands)
                 ELSE createNewSegmentGroup(segmentGroup, startIndex, cmds)

updateSegmentGroup(segmentGroup_, startIndex, cmds) ==
    LET segmentGroup == IF segmentGroup_ = NoGroup
                        THEN UrlSegmentGroup(<<>>, EmptyMap) ELSE segmentGroup_
    IN  IF Len(segmentGroup.segments) = 0 /\ hasChildren(segmentGroup)
        THEN updateSegmentGroupChildren(segmentGroup, startIndex, cmds)
        ELSE LET m == prefixedWith(segmentGroup, startIndex, cmds)
                 slicedCommands == slice(cmds, m.commandIndex, Len(cmds))
             IN  IF m.match /\ m.pathIndex < Len(segmentGroup.segments)
                 THEN LET g == UrlSegmentGroup(
                                   slice(segmentGroup.segments, 0, m.pathIndex),
                                   PRIMARY_OUTLET :> UrlSegmentGroup(
                                       slice(segmentGroup.segments, m.pathIndex,
                                             Len(segmentGroup.segments)),
                                       segmentGroup.children))
                      IN  updateSegmentGroupChildren(g, 0, slicedCommands)
                 ELSE IF m.match /\ Len(slicedCommands) = 0
                 THEN Return(UrlSegmentGroup(segmentGroup.segments, EmptyMap))
                 ELSE IF m.match /\ ~hasChildren(segmentGroup)
                 THEN createNewSegmentGroup(segmentGroup, startIndex, cmds)
                 ELSE IF m.match
                 THEN updateSegmentGroupChildren(segmentGroup, 0, slicedCommands)
                 ELSE createNewSegmentGroup(segmentGroup, startIndex, cmds)

(***************************************************************************)
(* Tree assembler.                                                         *)
(***************************************************************************)
RECURSIVE replaceSegment_inPlace(_, _, _)
\* replaceSegment that assigns the new children to `current` and returns it
replaceSegment_inPlace(current, oldSegment, newSegment) ==
    [current EXCEPT !.children =
        [outletName \in DOMAIN current.children |->
            IF current.children[outletName].id = oldSegment.id
            THEN newSegment
            ELSE replaceSegment_inPlace(current.children[outletName], oldSegment,
                                        newSegment)]]

RECURSIVE replaceSegment_reusesSiblings(_, _, _)
\* replaceSegment that returns a child without the old segment below it as it is
replaceSegment_reusesSiblings(current, oldSegment, newSegment) ==
    UrlSegmentGroup(current.segments,
        [outletName \in DOMAIN current.children |->
            LET c == current.children[outletName] IN
            IF c.id = oldSegment.id
            THEN newSegment
            ELSE IF \A g \in groupsOf(c) : g.id # oldSegment.id
            THEN c
            ELSE replaceSegment_reusesSiblings(c, oldSegment, newSegment)])

RECURSIVE replaceSegment(_, _, _)
replaceSegment(current, oldSegment, newSegment) ==
    UrlSegmentGroup(current.segments,
        [outletName \in DOMAIN current.children |->
            IF current.children[outletName].id = oldSegment.id
            THEN newSegment
            ELSE replaceSegment(current.children[outletName], oldSegment, newSegment)])

RECURSIVE squashSegmentGroup(_)
\* every group below segmentGroup that has no segments and exactly one child is
\* collapsed into that child; segmentGroup itself, the root candidate, is kept
squashSegmentGroup(segmentGroup) ==
    LET squashed == [o \in DOMAIN segmentGroup.children |->
                        squashSegmentGroup(segmentGroup.children[o])]
        collapse(c) == IF Len(c.segments) = 0 /\ Cardinality(DOMAIN c.children) = 1
                       THEN c.children[CHOOSE o \in DOMAIN c.children : TRUE]
                       ELSE c
    IN  UrlSegmentGroup(segmentGroup.segments,
            [o \in DOMAIN segmentGroup.children |-> collapse(squashed[o])])

\* a root has no segments of its own
createRoot(rootCandidate) ==
    IF Len(rootCandidate.segments) > 0
    THEN UrlSegmentGroup(<<>>, PRIMARY_OUTLET :> rootCandidate)
    ELSE rootCandidate

\* queryParams is null or an object of strings and numbers
NullParams == [null |-> TRUE, params |-> EmptyMap]
Params(params) == [null |-> FALSE, params |-> params]

rootCandidateOf(oldRoot, oldSegmentGroup, newSegmentGroup) ==
    IF oldRoot.id = oldSegmentGroup.id
    THEN newSegmentGroup
    ELSE replaceSegment(oldRoot, oldSegmentGroup, newSegmentGroup)

\* tree that does not squash the root candidate
tree_noSquash(oldRoot, oldSegmentGroup, newSegmentGroup, queryParams, fragment) ==
    LET qp == IF queryParams.null THEN EmptyMap ELSE stringify(queryParams.params)
        rootCandidate == rootCandidateOf(oldRoot, oldSegmentGroup, newSegmentGroup)
    IN  UrlTree(createRoot(rootCandidate), qp, fragment)

tree(oldRoot, oldSegmentGroup, newSegmentGroup, queryParams, fragment) ==
    LET qp == IF queryParams.null THEN EmptyMap ELSE stringify(queryParams.params)
        rootCandidate == rootCandidateOf(oldRoot, oldSegmentGroup, newSegmentGroup)
        newRoot == createRoot(squashSegmentGroup(rootCandidate))
    IN  UrlTree(newRoot, qp, fragment)

(***************************************************************************)
(* Entry points.  A call's result records what it threw, the values it     *)
(* computed on the way and the tree it returned.                           *)
(***************************************************************************)
NoNavigation == Thrown("none")

NoPosition == ThrownPosition("none")

Outcome(threw, nav, position, newSegmentGroup, rootCandidate, result) ==
    [threw |-> threw, nav |-> nav, position |-> position,
     newSegmentGroup |-> newSegmentGroup, rootCandidate |-> rootCandidate,
     tree |-> result]

\* what both entry points do once the position is resolved
graft(root, nav, position, queryParams, fragment) ==
    IF position.threw # "none"
    THEN Outcome(position.threw, nav, position, NoGroup, NoGroup, NoTree)
    ELSE LET newSegmentGroup ==
                 IF position.processChildren
                 THEN updateSegmentGroupChildren(position.segmentGroup, position.index,
                                                 nav.commands)
                 ELSE updateSegmentGroup(position.segmentGroup, position.index,
                                         nav.commands)
         IN  IF newSegmentGroup.threw # "none"
             THEN Outcome(newSegmentGroup.threw, nav, position, NoGroup, NoGroup, NoTree)
             ELSE Outcome("none", nav, position, newSegmentGroup.g,
                     rootCandidateOf(root, position.segmentGroup, newSegmentGroup.g),
                     tree(root, position.segmentGroup, newSegmentGroup.g,
                          queryParams, fragment))

\* rootOf without the walk up the parents
rootOf_noWalk(tree_, g) == g

RECURSIVE rootOf(_, _)
\* `while (root.parent) root = root.parent`, with parents looked up in tree_
rootOf(tree_, g) ==
    IF parentOf(tree_.root, g) = NoGroup THEN g ELSE rootOf(tree_, parentOf(tree_.root, g))

\* tree_ is the tree relativeTo_ lies in
createUrlTreeFromSegmentGroup(tree_, relativeTo_, cmds, queryParams, fragment) ==
    LET root == rootOf(tree_, relativeTo_) IN
    IF Len(cmds) = 0
    THEN Outcome("none", NoNavigation, NoPosition, root, root,
                 tree(root, root, root, queryParams, fragment))
    ELSE LET nav == computeNavigation(cmds) IN
         IF nav.threw # "none"
         THEN Outcome(nav.threw, nav, NoPosition, NoGroup, NoGroup, NoTree)
         ELSE IF toRoot(nav)
         THEN Outcome("none", nav, NoPosition, UrlSegmentGroup(<<>>, EmptyMap),
                      UrlSegmentGroup(<<>>, EmptyMap),
                      tree(root, root, UrlSegmentGroup(<<>>, EmptyMap),
                           queryParams, fragment))
         ELSE graft(root, nav, findStartingPositionForTargetGroup(nav, root, relativeTo_),
                    queryParams, fragment)

\* route.snapshot._urlSegment is urlSegment, route.snapshot._lastPathIndex is
\* lastPathIndex
createUrlTree(urlSegment, lastPathIndex, tree_, cmds, queryParams, fragment) ==
    IF Len(cmds) = 0
    THEN Outcome("none", NoNavigation, NoPosition, tree_.root, tree_.root,
                 tree(tree_.root, tree_.root, tree_.root, queryParams, fragment))
    ELSE LET nav == computeNavigation(cmds) IN
         IF nav.threw # "none"
         THEN Outcome(nav.threw, nav, NoPosition, NoGroup, NoGroup, NoTree)
         ELSE IF toRoot(nav)
         THEN Outcome("none", nav, NoPosition, UrlSegmentGroup(<<>>, EmptyMap),
                      UrlSegmentGroup(<<>>, EmptyMap),
                      tree(tree_.root, tree_.root, UrlSegmentGroup(<<>>, EmptyMap),
                           queryParams, fragment))
         ELSE graft(tree_.root, nav,
                    findStartingPosition(nav, tree_, urlSegment, lastPathIndex),
                    queryParams, fragment)

(***************************************************************************)
(* Inputs: the trees a call may be given, and the raw commands.            *)
(***************************************************************************)
Seg(path) == UrlSegment(<<path>>, EmptyMap)

Group(id, segments, children) == [id |-> id, segments |-> segments, children |-> children]

\* "/"
TreeEmpty == Group(1, <<>>, EmptyMap)

\* "/team/33/(user/11//right:chat)"
TreeTeam ==
    Group(1, <<>>, PRIMARY_OUTLET :>
        Group(2, <<Seg("team"), Seg("33")>>,
              (PRIMARY_OUTLET :> Group(3, <<Seg("user"), Seg("11")>>, EmptyMap))
              @@ ("right" :> Group(4, <<Seg("chat")>>, EmptyMap))))

\* "/a/b" matched through a pathless route between a and b
TreePathless ==
    Group(1, <<>>, PRIMARY_OUTLET :>
        Group(2, <<Seg("a")>>, PRIMARY_OUTLET :>
            Group(3, <<>>, PRIMARY_OUTLET :> Group(4, <<Seg("b")>>, EmptyMap))))

\* "/(a;expand=true/(right:b)//right:c)"
TreeAux ==
    Group(1, <<>>,
          (PRIMARY_OUTLET :>
              Group(2, <<UrlSegment(<<"a">>, "expand" :> "true")>>,
                    "right" :> Group(4, <<Seg("b")>>, EmptyMap)))
          @@ ("right" :> Group(3, <<Seg("c")>>, EmptyMap)))

\* "/(a//right:c)" below a pathless route, with a pathless leaf under a
TreePathlessTop ==
    Group(1, <<>>, PRIMARY_OUTLET :>
        Group(2, <<>>,
              (PRIMARY_OUTLET :>
                  Group(3, <<Seg("a")>>, PRIMARY_OUTLET :> Group(5, <<>>, EmptyMap)))
              @@ ("right" :> Group(4, <<Seg("c")>>, EmptyMap))))

Trees == {TreeEmpty, TreeTeam, TreePathless, TreeAux, TreePathlessTop}

Expand == MatrixCmd("expand" :> StrVal("true"))

RemoveRight == OutletsCmd("right" :> NullOutlet)

\* the commands a list may start with
FirstCommands ==
    { StringCmd(<<"", "">>), StringCmd(<<"", "a">>), StringCmd(<<"", "a", "b">>),
      StringCmd(<<"", "team">>), StringCmd(<<"", "..">>),
      StringCmd(<<"a">>), StringCmd(<<"a", "b">>), StringCmd(<<".", "a">>),
      StringCmd(<<"..">>), StringCmd(<<"..", "a">>), StringCmd(<<"..", "..">>),
      StringCmd(<<"">>),
      NumberCmd(33), Expand, MatrixCmd("id" :> NumVal(1)), RemoveRight,
      OutletsCmd((PRIMARY_OUTLET :> StringOutlet(<<"a", "b">>))
                 @@ ("right" :> ArrayOutlet(<<StringCmd(<<"c">>), Expand>>))),
      SegmentPathCmd(<<"", "a">>) }

\* the commands that may follow
LaterCommands ==
    { StringCmd(<<"a">>), StringCmd(<<"b">>), StringCmd(<<"", "">>), NumberCmd(33),
      Expand, RemoveRight,
      OutletsCmd((PRIMARY_OUTLET :> StringOutlet(<<"b">>)) @@ ("right" :> NullOutlet)) }

\* the query parameters and fragment of a call
Extras ==
    { [queryParams |-> NullParams, fragment |-> NullVal],
      [queryParams |-> Params("q" :> NumVal(1)), fragment |-> StrVal("top")] }

NoCall == [fn |-> "none", lastPathIndex |-> 0]

NoOutcome == Outcome("none", NoNavigation, NoPosition, NoGroup, NoGroup, NoTree)

(***************************************************************************)
(* The state machine: a caller builds a command list, then calls one of    *)
(* the two entry points once.                                              *)
(***************************************************************************)
Init ==
    /\ urlTree \in {UrlTree(t, EmptyMap, NullVal) : t \in Trees}
    /\ relativeTo \in groupsOf(urlTree.root)
    /\ commands = <<>>
    /\ extras \in Extras
    /\ pc = "input"
    /\ call = NoCall
    /\ out = NoOutcome

AddCommand ==
    /\ pc = "input"
    /\ Len(commands) < MaxCommands
    /\ \E c \in (IF commands = <<>> THEN FirstCommands ELSE LaterCommands) :
           commands' = Append(commands, c)
    /\ UNCHANGED <<urlTree, relativeTo, extras, pc, call, out>>

CallCreateUrlTreeFromSegmentGroup ==
    /\ pc = "input"
    /\ pc' = "done"
    /\ call' = [fn |-> "createUrlTreeFromSegmentGroup", lastPathIndex |-> 0]
    /\ out' = createUrlTreeFromSegmentGroup(urlTree, relativeTo, commands,
                                            extras.queryParams, extras.fragment)
    /\ UNCHANGED <<urlTree, relativeTo, commands, extras>>

\* the route's snapshot has matched its group's segments up to lastPathIndex,
\* or none of them (-1, a pathless route)
CallCreateUrlTree ==
    /\ pc = "input"
    /\ \E lastPathIndex \in (0 - 1)..(Len(relativeTo.segments) - 1) :
          /\ call' = [fn |-> "createUrlTree", lastPathIndex |-> lastPathIndex]
          /\ out' = createUrlTree(relativeTo, lastPathIndex, urlTree, commands,
                                  extras.queryParams, extras.fragment)
    /\ pc' = "done"
    /\ UNCHANGED <<urlTree, relativeTo, commands, extras>>

Next == AddCommand \/ CallCreateUrlTreeFromSegmentGroup \/ CallCreateUrlTree

Spec == Init /\ [][Next]_vars

\* normalisation and validation do not look at the tree: longer command lists
\* are explored against the empty tree
InitNav ==
    /\ urlTree = UrlTree(TreeEmpty, EmptyMap, NullVal)
    /\ relativeTo = TreeEmpty
    /\ commands = <<>>
    /\ extras \in Extras
    /\ pc = "input"
    /\ call = NoCall
    /\ out = NoOutcome

AddNavCommand ==
    /\ pc = "input"
    /\ Len(commands) < MaxNavCommands
    /\ \E c \in (IF commands = <<>> THEN FirstCommands ELSE LaterCommands) :
           commands' = Append(commands, c)
    /\ UNCHANGED <<urlTree, relativeTo, extras, pc, call, out>>

NextNav == AddNavCommand \/ CallCreateUrlTreeFromSegmentGroup \/ CallCreateUrlTree

SpecNav == InitNav /\ [][NextNav]_vars

\* the plain path tokens: some are paths of segments of the input trees
PathTokens == {"a", "b", "team", "33"}

\* the caller builds a list ['/', t1, ..., tn] of path tokens
AddPathCommand ==
    /\ pc = "input"
    /\ Len(commands) < MaxPathCommands
    /\ \E c \in (IF commands = <<>> THEN {StringCmd(<<"", "">>)}
                  ELSE {StringCmd(<<t>>) : t \in PathTokens}) :
           commands' = Append(commands, c)
    /\ UNCHANGED <<urlTree, relativeTo, extras, pc, call, out>>

NextPath == AddPathCommand \/ CallCreateUrlTreeFromSegmentGroup \/ CallCreateUrlTree

SpecPath == Init /\ [][NextPath]_vars

\* the first commands the position resolver tells apart: '..' sub-tokens, a leading
\* '/' or an empty string, a matrix-parameter object, an outlets object
PosFirstCommands ==
    { StringCmd(<<"a">>), StringCmd(<<".", "a">>), StringCmd(<<"", "a">>),
      StringCmd(<<"">>), StringCmd(<<"", "..">>),
      StringCmd(<<"..">>), StringCmd(<<"..", "a">>), StringCmd(<<"..", "..">>),
      StringCmd(<<"..", "..", "..">>), Expand, RemoveRight }

PosLaterCommands == { StringCmd(<<"a">>), Expand, RemoveRight }

AddPosCommand ==
    /\ pc = "input"
    /\ Len(commands) < MaxPosCommands
    /\ \E c \in (IF commands = <<>> THEN PosFirstCommands ELSE PosLaterCommands) :
           commands' = Append(commands, c)
    /\ UNCHANGED <<urlTree, relativeTo, extras, pc, call, out>>

NextPos == AddPosCommand \/ CallCreateUrlTreeFromSegmentGroup \/ CallCreateUrlTree

SpecPos == Init /\ [][NextPos]_vars

(***************************************************************************)
(* Vocabulary of the properties.                                           *)
(***************************************************************************)
RECURSIVE structure(_)
\* a group without the identities of its objects: segments and children only
structure(g) ==
    [segments |-> g.segments,
     children |-> [o \in DOMAIN g.children |-> structure(g.children[o])]]

\* a group with no segments and exactly one child
isBareLevel(g) == Len(g.segments) = 0 /\ Cardinality(DOMAIN g.children) = 1

\* no group below root is a bare level
isSquashed(root) == \A g \in groupsOf(root) \ {root} : ~isBareLevel(g)

RECURSIVE primaryChain(_)
\* the segments along the primary outlet, from g downwards
primaryChain(g) ==
    g.segments \o (IF PRIMARY_OUTLET \in DOMAIN g.children
                   THEN primaryChain(g.children[PRIMARY_OUTLET]) ELSE <<>>)

Done == pc = "done"

FromSegmentGroup == call.fn = "createUrlTreeFromSegmentGroup"

inputRoot == urlTree.root

anchorIsRoot == relativeTo.id = inputRoot.id

\* the first raw command is a string that begins with '/'
beginsWithSlash(cmds) ==
    /\ Len(cmds) > 0
    /\ cmds[1].kind = "string"
    /\ Len(cmds[1].parts) >= 2
    /\ cmds[1].parts[1] = ""

\* the same call as the one made, from another anchor
callFrom(anchor, lastPathIndex) ==
    IF FromSegmentGroup
    THEN createUrlTreeFromSegmentGroup(urlTree, anchor, commands,
                                       extras.queryParams, extras.fragment)
    ELSE createUrlTree(anchor, lastPathIndex, urlTree, commands,
                       extras.queryParams, extras.fragment)

\* the number of '..' tokens of a raw command list: those of its first command
requestedDoubleDots(cmds) ==
    IF Len(cmds) > 0 /\ cmds[1].kind = "string"
    THEN Cardinality({i \in 1..Len(cmds[1].parts) : cmds[1].parts[i] = ".."})
    ELSE 0

RECURSIVE segmentsAbove(_, _)
\* the number of segments of the ancestors of g
segmentsAbove(root, g) ==
    LET p == parentOf(root, g)
    IN  IF p = NoGroup THEN 0 ELSE Len(p.segments) + segmentsAbove(root, p)

\* the index in the anchor group at which the call made starts
startIndex ==
    (IF FromSegmentGroup THEN Len(relativeTo.segments) - 1 ELSE call.lastPathIndex)
    + (IF Len(out.nav.commands) > 0 /\ isMatrixParams(out.nav.commands[1]) THEN 0 ELSE 1)

\* the start index plus the segments of the ancestors; the start index is -1 for an
\* anchor without segments when the first command is a matrix-parameter object
availableDepth == startIndex + segmentsAbove(inputRoot, relativeTo)

\* the segment levels above the start of the call made: the segments of the anchor
\* up to the start index and those of its ancestors
availableLevels ==
    (IF startIndex < 0 THEN 0 ELSE startIndex) + segmentsAbove(inputRoot, relativeTo)

\* the call made got through normalisation and validation
Normalised == Done /\ commands # <<>> /\ out.nav.threw = "none"

(***************************************************************************)
(* Properties.                                                             *)
(***************************************************************************)
\* C1, as stated: a call with an empty command list returns a tree whose root is
\* structurally equal to the root of the input tree.
C1_EmptyCommandsKeepRoot ==
    (Done /\ commands = <<>>) =>
        /\ out.threw = "none"
        /\ structure(out.tree.root) = structure(inputRoot)

\* C1, amended: when no group below the root of the input tree is a bare level (no
\* segments, exactly one child), a call with an empty command list returns a tree
\* whose root is structurally equal to the root of the input tree.
C1_EmptyCommandsKeepSquashedRoot ==
    (Done /\ commands = <<>> /\ isSquashed(inputRoot)) =>
        /\ out.threw = "none"
        /\ structure(out.tree.root) = structure(inputRoot)

C1_Witness ==
    /\ Done /\ commands = <<>> /\ isSquashed(inputRoot)
    /\ FromSegmentGroup /\ ~anchorIsRoot
    /\ Cardinality(groupsOf(inputRoot)) >= 4
    /\ out.tree.queryParams = ("q" :> "1")
    /\ structure(out.tree.root) = structure(inputRoot)

\* C2: a call whose first command begins with '/' throws the same error or returns
\* the same tree from every anchor of the tree (and every last path index), the
\* query parameters and fragment being the same.
C2_AbsoluteIsAnchorIndependent ==
    (Done /\ beginsWithSlash(commands)) =>
        \A b \in groupsOf(inputRoot) : \A i \in (0 - 1)..(Len(b.segments) - 1) :
            /\ callFrom(b, i).threw = out.threw
            /\ callFrom(b, i).tree = out.tree

C2_Witness ==
    /\ Done /\ beginsWithSlash(commands) /\ Len(commands) >= 2
    /\ ~anchorIsRoot
    /\ out.threw = "none"
    /\ hasChildren(out.tree.root)
    /\ structure(out.tree.root) # structure(inputRoot)

outletsNotLast(cmds) == \E i \in 1..(Len(cmds) - 1) : isCommandWithOutlets(cmds[i])

\* the only outlets command of the raw list is its last command
outletsOnlyLast(cmds) ==
    /\ Len(cmds) > 0
    /\ isCommandWithOutlets(cmds[Len(cmds)])
    /\ ~outletsNotLast(cmds)

\* what the reduce of computeNavigation makes of the raw list
normalised(cmds) ==
    reduceCommands(cmds, 0, [res |-> <<>>, numberOfDoubleDots |-> 0, isAbsolute |-> FALSE])

\* the raw list normalises to an absolute navigation whose first command is a
\* matrix-parameter object
absoluteMatrixFirst(cmds) ==
    /\ normalised(cmds).isAbsolute
    /\ Len(normalised(cmds).res) > 0
    /\ isMatrixParams(normalised(cmds).res[1])

\* C4, as stated: a call whose list has an outlets command that is not its last
\* command throws MisplacedOutletsCommand; a call whose only outlets command is the
\* last one never does.
C4_MisplacedOutletsAlways ==
    Done =>
        /\ outletsNotLast(commands) => out.threw = "MisplacedOutletsCommand"
        /\ outletsOnlyLast(commands) => out.threw # "MisplacedOutletsCommand"

\* C4, amended: a call whose list has an outlets command that is not its last
\* command returns no tree: it throws RootSegmentMatrixParams when the list
\* normalises to an absolute navigation whose first command is a matrix-parameter
\* object (that check comes first), and MisplacedOutletsCommand otherwise; a call
\* whose only outlets command is the last one never throws MisplacedOutletsCommand.
C4_MisplacedOutletsAfterRootCheck ==
    Done =>
        /\ outletsNotLast(commands) =>
               /\ out.tree = NoTree
               /\ out.threw = IF absoluteMatrixFirst(commands)
                              THEN "RootSegmentMatrixParams"
                              ELSE "MisplacedOutletsCommand"
        /\ outletsOnlyLast(commands) => out.threw # "MisplacedOutletsCommand"

C4_Witness ==
    /\ Done
    /\ Len(commands) = 3
    /\ commands[1] = StringCmd(<<"a">>)
    /\ isCommandWithOutlets(commands[2])
    /\ commands[3] = StringCmd(<<"b">>)
    /\ out.threw = "MisplacedOutletsCommand"
    /\ out.tree = NoTree

\* C5: a call whose list normalises to an absolute navigation whose first command
\* is a matrix-parameter object throws RootSegmentMatrixParams and returns no tree;
\* a call whose list normalises to a relative navigation whose first command is a
\* matrix-parameter object never throws RootSegmentMatrixParams.
C5_RootSegmentMatrixParams ==
    (Done /\ Len(commands) > 0 /\ Len(normalised(commands).res) > 0
          /\ isMatrixParams(normalised(commands).res[1])) =>
        IF normalised(commands).isAbsolute
        THEN out.threw = "RootSegmentMatrixParams" /\ out.tree = NoTree
        ELSE out.threw # "RootSegmentMatrixParams"

C5_Witness ==
    /\ Done
    /\ commands = <<StringCmd(<<"", "">>), Expand>>
    /\ ~anchorIsRoot
    /\ out.threw = "RootSegmentMatrixParams"
    /\ out.tree = NoTree

\* the index of the segment of the anchor at which the call made is resolved
boundary == IF FromSegmentGroup THEN Len(relativeTo.segments) - 1 ELSE call.lastPathIndex

\* C6: in a relative call whose first command is a matrix-parameter object, from an
\* anchor with segments, the stringified parameters are attached to the segment of
\* the anchor at the resolved boundary (its last segment) and no segment is made
\* for them: the new group has the anchor's segments up to the boundary, the paths
\* unchanged, then one segment for each further path command.
C6_MatrixParamsAttachToBoundary ==
    (Normalised /\ isMatrixParams(commands[1]) /\ boundary >= 0) =>
        /\ (\A i \in 1..Len(commands) : ~isCommandWithOutlets(commands[i]))
               => out.threw = "none"
        /\ out.threw = "none" =>
               LET old == relativeTo.segments
                   new == out.newSegmentGroup.segments
                   b == boundary + 1
               IN  /\ out.position.segmentGroup.id = relativeTo.id
                   /\ out.position.index = boundary
                   /\ Len(new) >= b
                   /\ \A i \in 1..b : new[i].path = old[i].path
                   /\ \A i \in 1..(b - 1) : new[i] = old[i]
                   /\ new[b].parameters = stringify(commands[1].params)
                   /\ Len(commands) = 1 => Len(new) = b

C6_Witness ==
    /\ Done /\ FromSegmentGroup
    /\ inputRoot = TreeTeam
    /\ relativeTo.id = 2
    /\ commands = <<Expand>>
    /\ structure(out.tree.root) =
           structure(Group(0, <<>>, PRIMARY_OUTLET :>
               Group(0, <<Seg("team"), UrlSegment(<<"33">>, "expand" :> "true")>>,
                     EmptyMap)))

\* new is g with the outlets mapped to null removed and the outlets not named kept
removesNullOutlets(g, new, outlets) ==
    /\ new.segments = g.segments
    /\ \A o \in DOMAIN outlets :
           outlets[o].kind = "null" => o \notin DOMAIN new.children
    /\ \A o \in DOMAIN g.children \ DOMAIN outlets :
           o \in DOMAIN new.children /\ new.children[o] = g.children[o]

\* C7: updating the children of a group with an outlets command gives a group with
\* the same segments, without a child for any outlet the command maps to null, and
\* with the very child the group had for every outlet the command does not name;
\* so does a call with a single outlets command, resolved at the end of a group's
\* segments, for that group.
C7_NullRemovesOutlet ==
    /\ (/\ Done /\ Len(commands) = 1 /\ isCommandWithOutlets(commands[1])
        /\ out.threw = "none"
        /\ \/ out.position.processChildren
           \/ out.position.index = Len(out.position.segmentGroup.segments)) =>
           removesNullOutlets(out.position.segmentGroup, out.newSegmentGroup,
                              commands[1].outlets)
    /\ Normalised =>
           \A g \in groupsOf(inputRoot) : \A i \in 1..Len(out.nav.commands) :
               LET c == out.nav.commands[i]
                   updated == updateSegmentGroupChildren(g, 0, <<c>>)
               IN  (isCommandWithOutlets(c) /\ updated.threw = "none") =>
                       removesNullOutlets(g, updated.g, c.outlets)

C7_Witness ==
    /\ Done /\ FromSegmentGroup
    /\ inputRoot = TreeTeam
    /\ relativeTo.id = 2
    /\ commands = <<RemoveRight>>
    /\ structure(out.tree.root) =
           structure(Group(0, <<>>, PRIMARY_OUTLET :>
               Group(0, <<Seg("team"), Seg("33")>>, PRIMARY_OUTLET :>
                   Group(0, <<Seg("user"), Seg("11")>>, EmptyMap))))

\* C8: in the tree a call returns, no group other than the root has an empty
\* segment list together with exactly one child.
C8_ResultIsSquashed ==
    (Done /\ out.threw = "none") => isSquashed(out.tree.root)

C8_Witness ==
    /\ Done /\ out.threw = "none" /\ commands # <<>>
    /\ ~isSquashed(out.rootCandidate)
    /\ isSquashed(out.tree.root)

isPathToken(c) == c.kind = "string" /\ Len(c.parts) = 1

\* C10: a call with the commands ['/', t1, ..., tn], the t's strings without '/',
\* returns a tree whose segments along the primary outlet from the root are exactly
\* t1, ..., tn, each with no parameters; so are those of the root candidate the
\* tree is made of.
C10_AbsolutePathRoundTrip ==
    (/\ Done /\ Len(commands) > 0
     /\ commands[1] = StringCmd(<<"", "">>)
     /\ \A i \in 2..Len(commands) : isPathToken(commands[i])) =>
        LET tokens == [i \in 1..(Len(commands) - 1) |->
                          UrlSegment(commands[i + 1].parts, EmptyMap)]
        IN  /\ out.threw = "none"
            /\ primaryChain(out.rootCandidate) = tokens
            /\ primaryChain(out.tree.root) = tokens

C10_Witness ==
    /\ Done /\ ~anchorIsRoot
    /\ inputRoot = TreeTeam
    /\ commands = <<StringCmd(<<"", "">>), StringCmd(<<"a">>), StringCmd(<<"b">>)>>
    /\ primaryChain(out.tree.root) = <<Seg("a"), Seg("b")>>

\* the group the call made grafts at, when it is not the root of the input tree
oldAnchor == out.position.segmentGroup

\* the call made returned a tree assembled by replacing a group below the root
Replaced == Done /\ out.threw = "none" /\ out.position.threw = "none"
            /\ out.position.segmentGroup # NoGroup /\ oldAnchor.id # inputRoot.id

\* the subtrees of the input tree that lie beside the old anchor: below the root,
\* neither holding the old anchor nor held by it
siblingSubtrees ==
    {s \in groupsOf(inputRoot) \ groupsOf(oldAnchor) :
        \A g \in groupsOf(s) : g.id # oldAnchor.id}

RECURSIVE isCopyExceptAt(_, _, _, _)
\* candidate is a new object with the segments of original and, outlet by outlet,
\* newSegment where original has the old segment and such a copy elsewhere
isCopyExceptAt(original, candidate, oldSegment, newSegment) ==
    /\ candidate.id = 0
    /\ candidate.segments = original.segments
    /\ DOMAIN candidate.children = DOMAIN original.children
    /\ \A o \in DOMAIN original.children :
           IF original.children[o].id = oldSegment.id
           THEN candidate.children[o] = newSegment
           ELSE isCopyExceptAt(original.children[o], candidate.children[o],
                               oldSegment, newSegment)

suffixes(cmds) == {slice(cmds, k, Len(cmds)) : k \in 0..Len(cmds)}

\* the child of g under outlet o, if any
childAt(g, o) == IF o \in DOMAIN g.children THEN g.children[o] ELSE NoGroup

\* new is what outlet-children processing of g at index with cmds must be
childrenProcessed(g, index, cmds, new) ==
    IF Len(cmds) = 0
    THEN new.segments = g.segments /\ ~hasChildren(new)
    ELSE LET outlets == getOutlets(cmds)
             updatedOutlets == {o \in DOMAIN outlets : outlets[o].kind # "null"}
             keptOutlets == DOMAIN g.children \ DOMAIN outlets
         IN  /\ new.segments = g.segments
             /\ DOMAIN new.children = keptOutlets \cup updatedOutlets
             /\ \A o \in keptOutlets : new.children[o] = g.children[o]
             /\ \A o \in updatedOutlets :
                    new.children[o] =
                        updateSegmentGroup(childAt(g, o), index,
                                           outletCommands(outlets[o])).g

\* C12: outlet-children processing of a group with a non-empty command list gives
\* a group with the same segments whose children are: the very child the group had,
\* for every outlet the outlet mapping does not name; the updated child, for every
\* outlet named with a non-null value; none for an outlet mapped to null. With an
\* empty command list it gives the group's segments and no children. This holds of
\* every group of the tree with every suffix of the normalised commands, and of the
\* new subtree of a call resolved with processChildren.
C12_ChildrenFrame ==
    Normalised =>
        /\ \A g \in groupsOf(inputRoot) : \A cmds \in suffixes(out.nav.commands) :
           \A i \in 0..Len(g.segments) :
               LET updated == updateSegmentGroupChildren(g, i, cmds)
               IN  /\ Len(cmds) = 0 => updated.threw = "none"
                   /\ updated.threw = "none" => childrenProcessed(g, i, cmds, updated.g)
        /\ (out.threw = "none" /\ out.position.segmentGroup # NoGroup
            /\ out.position.processChildren) =>
               childrenProcessed(out.position.segmentGroup, out.position.index,
                                 out.nav.commands, out.newSegmentGroup)

C12_Witness ==
    /\ Normalised /\ out.threw = "none"
    /\ Len(out.nav.commands) > 0
    /\ out.position.segmentGroup # NoGroup /\ out.position.processChildren
    /\ LET g == out.position.segmentGroup
           outlets == getOutlets(out.nav.commands)
       IN  /\ DOMAIN g.children \ DOMAIN outlets # {}
           /\ \E o \in DOMAIN outlets \cap DOMAIN g.children :
                  /\ outlets[o].kind # "null"
                  /\ out.newSegmentGroup.children[o] # g.children[o]
           /\ \A o \in DOMAIN g.children \ DOMAIN outlets :
                  out.newSegmentGroup.children[o] = g.children[o]

\* the sub-tokens of a first string command that normalisation appends: all but an
\* empty one, a '..', and a '.' at position 0; one string each, in order
appendedSubTokens(parts) ==
    LET indexed == [i \in 1..Len(parts) |-> [index |-> i, part |-> parts[i]]]
        appended == SelectSeq(indexed,
                        LAMBDA p : /\ p.part # ""
                                   /\ p.part # ".."
                                   /\ ~(p.index = 1 /\ p.part = "."))
    IN  [k \in 1..Len(appended) |-> StringCmd(<<appended[k].part>>)]

\* what normalisation makes of a command it does not split: an outlets object has
\* its string values split, a segmentPath object is replaced by its path, and
\* anything else is passed through
passedThrough(c) ==
    IF c.kind = "outlets"
    THEN OutletsCmd([name \in DOMAIN c.outlets |->
                        IF c.outlets[name].kind = "string"
                        THEN ArrayOutlet(split(c.outlets[name].parts))
                        ELSE c.outlets[name]])
    ELSE IF c.kind = "segmentPath" THEN StringCmd(c.parts)
    ELSE c

\* the normalised commands of a raw list other than ['/']
expectedCommands(cmds) ==
    (IF cmds[1].kind = "string" THEN appendedSubTokens(cmds[1].parts)
     ELSE <<passedThrough(cmds[1])>>)
    \o [i \in 1..(Len(cmds) - 1) |-> passedThrough(cmds[i + 1])]

\* the first raw command is a string whose sub-token at position 0 is empty: the
\* empty string or a string that begins with '/'
firstSubTokenEmpty(cmds) == cmds[1].kind = "string" /\ cmds[1].parts[1] = ""

\* C13, as stated: the navigation computed is absolute iff the first command is a
\* string that begins with '/', its numberOfDoubleDots is the number of '..'
\* sub-tokens of the first command, and its commands are the appended sub-tokens
\* of the first command followed by the later commands unsplit.
C13_AbsoluteIffLeadingSlash ==
    Normalised =>
        /\ out.nav.isAbsolute = beginsWithSlash(commands)
        /\ out.nav.numberOfDoubleDots = requestedDoubleDots(commands)
        /\ out.nav.commands = expectedCommands(commands)

\* C13, amended: for a list other than ['/'], which is kept as it is and absolute,
\* the commands of the navigation are the appended sub-tokens of a first string
\* command (or the first command itself) followed by the later commands unsplit,
\* its numberOfDoubleDots is the number of '..' sub-tokens of the first command,
\* and it is absolute iff the first command is a string whose sub-token at
\* position 0 is empty: the empty string or a string that begins with '/'.
C13_Normalisation ==
    Normalised =>
        IF commands = <<StringCmd(<<"", "">>)>>
        THEN /\ out.nav.isAbsolute
             /\ out.nav.numberOfDoubleDots = 0
             /\ out.nav.commands = commands
        ELSE /\ out.nav.isAbsolute = firstSubTokenEmpty(commands)
             /\ out.nav.numberOfDoubleDots = requestedDoubleDots(commands)
             /\ out.nav.commands = expectedCommands(commands)

C13_Witness ==
    /\ Normalised
    /\ Len(commands) = 3
    /\ commands[1] = StringCmd(<<"..", "a">>)
    /\ commands[2] = StringCmd(<<"", "">>)
    /\ out.nav.numberOfDoubleDots = 1
    /\ ~out.nav.isAbsolute
    /\ out.nav.commands = <<StringCmd(<<"a">>), StringCmd(<<"", "">>), commands[3]>>

RECURSIVE ancestorsOrSelf(_, _)
\* g and the groups above it in the tree under root
ancestorsOrSelf(root, g) ==
    IF parentOf(root, g) = NoGroup THEN {g}
    ELSE {g} \cup ancestorsOrSelf(root, parentOf(root, g))

\* the number of segments from the root down to the end of the anchor's chain: the
\* segments of the ancestors and those of the anchor up to the boundary
endOfAnchorChain == segmentsAbove(inputRoot, relativeTo) + boundary + 1

\* the position of the call made lies exactly k segments above depth, in the anchor
\* or one of its ancestors, unless k exceeds depth, and then InvalidDoubleDots is
\* thrown
landsAbove(depth, k) ==
    LET p == out.position
    IN  IF k > depth
        THEN p.threw = "InvalidDoubleDots" /\ out.threw = "InvalidDoubleDots"
        ELSE /\ p.threw = "none"
             /\ ~p.processChildren
             /\ p.segmentGroup \in ancestorsOrSelf(inputRoot, relativeTo)
             /\ p.index >= 0 /\ p.index <= Len(p.segmentGroup.segments)
             /\ segmentsAbove(inputRoot, p.segmentGroup) + p.index = depth - k
             /\ p.segmentGroup.id # relativeTo.id
                    => p.index < Len(p.segmentGroup.segments)

PathlessRelative ==
    /\ Normalised
    /\ call.fn = "createUrlTree"
    /\ call.lastPathIndex = 0 - 1
    /\ ~out.nav.isAbsolute

\* the outcome of the call made is that of updating: the same error, or the group
\* returned as new subtree
graftedAs(updating) ==
    /\ out.threw = updating.threw
    /\ updating.threw = "none" => out.newSegmentGroup = updating.g

\* C15: a relative createUrlTree with last path index -1 resolves the position at
\* the given group, index 0, with processChildren true iff the group is the root of
\* the tree, whatever the '..' sub-tokens; from a group that is not the root the
\* commands are applied by updateSegmentGroup to the group at index 0, and from the
\* root by updateSegmentGroupChildren.
C15_PathlessRoutePosition ==
    PathlessRelative =>
        /\ out.position = Position(relativeTo, anchorIsRoot, 0)
        /\ graftedAs(IF anchorIsRoot
                     THEN updateSegmentGroupChildren(relativeTo, 0, out.nav.commands)
                     ELSE updateSegmentGroup(relativeTo, 0, out.nav.commands))

C15_Witness ==
    /\ PathlessRelative /\ ~anchorIsRoot
    /\ Len(relativeTo.segments) > 0 /\ hasChildren(relativeTo)
    /\ out.threw = "none"
    /\ ~out.position.processChildren
    /\ out.newSegmentGroup # updateSegmentGroupChildren(relativeTo, 0, out.nav.commands).g

\* the contiguous sub-lists of a command list, the empty one included
infixes(cmds) ==
    {slice(cmds, from, to) : from \in 0..Len(cmds), to \in 0..Len(cmds)}

\* cmds match the segments of g from index through the last one, and none is left
matchedToTheEnd(g, index, cmds) ==
    LET m == prefixedWith(g, index, cmds)
    IN  m.match /\ m.pathIndex >= Len(g.segments) /\ m.commandIndex = Len(cmds)

\* the position of the call made is resolved at a group that is updated as a whole
UpdatedAsGroup ==
    /\ Normalised
    /\ out.position.segmentGroup # NoGroup
    /\ ~out.position.processChildren
    /\ ~toRoot(out.nav)

\* C16: updateSegmentGroup on a group with at least one segment, with commands that
\* match its segments from the start index through the last one and leave no
\* command, returns with a new group that has exactly the segments of the group
\* and no children. This holds of every group of the tree with every sub-list of
\* the normalised commands and every start index, and of the new subtree of a call
\* resolved at such a group.
C16_FullMatchDropsChildren ==
    Normalised =>
        /\ \A g \in groupsOf(inputRoot) : \A cmds \in infixes(out.nav.commands) :
           \A i \in 0..Len(g.segments) :
               (Len(g.segments) >= 1 /\ matchedToTheEnd(g, i, cmds)) =>
                   LET updated == updateSegmentGroup(g, i, cmds)
                   IN  /\ updated.threw = "none"
                       /\ updated.g.id = 0
                       /\ updated.g.segments = g.segments
                       /\ ~hasChildren(updated.g)
        /\ (/\ UpdatedAsGroup
            /\ Len(out.position.segmentGroup.segments) >= 1
            /\ matchedToTheEnd(out.position.segmentGroup, out.position.index,
                               out.nav.commands)) =>
               /\ out.threw = "none"
               /\ out.newSegmentGroup.segments = out.position.segmentGroup.segments
               /\ ~hasChildren(out.newSegmentGroup)

C16_Witness ==
    /\ UpdatedAsGroup
    /\ inputRoot = TreeTeam /\ out.position.segmentGroup.id = 2
    /\ out.position.index = 1
    /\ matchedToTheEnd(out.position.segmentGroup, out.position.index, out.nav.commands)
    /\ Cardinality(DOMAIN out.position.segmentGroup.children) = 2
    /\ out.threw = "none"
    /\ out.newSegmentGroup.segments = <<Seg("team"), Seg("33")>>
    /\ ~hasChildren(out.newSegmentGroup)

RECURSIVE segmentsBuilt(_)
\* the segments the commands before the first outlets command stand for: a path
\* with the plain object that follows it, if any, as its parameters
segmentsBuilt(cmds) ==
    IF cmds = <<>> \/ isCommandWithOutlets(cmds[1])
    THEN <<>>
    ELSE IF truthy(templateCmd(cmds[1])) /\ Len(cmds) >= 2 /\ isMatrixParams(cmds[2])
    THEN <<UrlSegment(templateCmd(cmds[1]), stringify(cmds[2].params))>>
             \o segmentsBuilt(slice(cmds, 2, Len(cmds)))
    ELSE <<UrlSegment(templateCmd(cmds[1]), EmptyMap)>>
             \o segmentsBuilt(slice(cmds, 1, Len(cmds)))

\* the segments built from cmds on top of the segments of g before index: a
\* leading plain object gives the segment of g at index new parameters
segmentsBuiltOn(g, index, cmds) ==
    IF cmds # <<>> /\ isMatrixParams(cmds[1])
    THEN <<UrlSegment(g.segments[index + 1].path, stringify(cmds[1].params))>>
             \o segmentsBuilt(slice(cmds, 1, Len(cmds)))
    ELSE segmentsBuilt(cmds)

\* the outlets that the first outlets command of cmds, if any, maps to commands
outletsBuilt(cmds) ==
    LET at == {k \in 1..Len(cmds) : isCommandWithOutlets(cmds[k])}
    IN  IF at = {} THEN {}
        ELSE LET first == CHOOSE k \in at : \A j \in at : k <= j
             IN  {o \in DOMAIN cmds[first].outlets : cmds[first].outlets[o].kind # "null"}

\* new is the chain built from cmds after the first index segments of g, with
\* nothing of the children of g
isNewChain(g, index, cmds, new) ==
    /\ new.segments = slice(g.segments, 0, index) \o segmentsBuiltOn(g, index, cmds)
    /\ DOMAIN new.children = outletsBuilt(cmds)
    /\ \A n \in groupsOf(new) : n.id = 0

\* updateSegmentGroup runs the prefix match on g, and the match fails
matchFails(g, index, cmds) ==
    /\ ~(Len(g.segments) = 0 /\ hasChildren(g))
    /\ ~prefixedWith(g, index, cmds).match

\* C17: when the prefix match of updateSegmentGroup fails, a result is a new group
\* whose segments are the segments of the group before the start index followed by
\* the segments built from the commands, and whose children are those built from
\* the trailing outlets command, if any: no child of the group is in it. This holds
\* of every group of the tree with every sub-list of the normalised commands and
\* every start index, and of the new subtree of a call resolved at such a group.
C17_NoMatchBuildsNewChain ==
    Normalised =>
        /\ \A g \in groupsOf(inputRoot) : \A cmds \in infixes(out.nav.commands) :
           \A i \in 0..Len(g.segments) :
               matchFails(g, i, cmds) =>
                   LET updated == updateSegmentGroup(g, i, cmds)
                   IN  updated.threw = "none" => isNewChain(g, i, cmds, updated.g)
        /\ (/\ UpdatedAsGroup /\ out.threw = "none"
            /\ matchFails(out.position.segmentGroup, out.position.index,
                          out.nav.commands)) =>
               isNewChain(out.position.segmentGroup, out.position.index,
                          out.nav.commands, out.newSegmentGroup)

C17_Witness ==
    /\ UpdatedAsGroup /\ out.threw = "none"
    /\ matchFails(out.position.segmentGroup, out.position.index, out.nav.commands)
    /\ out.position.index = 1
    /\ Cardinality(DOMAIN out.position.segmentGroup.children) = 2
    /\ Len(out.newSegmentGroup.segments) = 2
    /\ DOMAIN out.newSegmentGroup.children = {PRIMARY_OUTLET}

\* the command at index k (from 0) is followed by a plain object that is taken
\* with it as the expected parameters
takesParameters(cmds, k) ==
    /\ truthy(templateCmd(cmds[k + 1]))
    /\ k + 2 <= Len(cmds)
    /\ isMatrixParams(cmds[k + 2])

RECURSIVE commandIndexAfter(_, _)
\* the command index reached after n segments were matched in lockstep
commandIndexAfter(cmds, n) ==
    IF n = 0 THEN 0
    ELSE LET k == commandIndexAfter(cmds, n - 1)
         IN  IF k >= Len(cmds) THEN k
             ELSE IF takesParameters(cmds, k) THEN k + 2 ELSE k + 1

\* the command at index k and the parameters taken with it are those of segment
agrees(cmds, k, segment) ==
    /\ templateCmd(cmds[k + 1]) = segment.path
    /\ shallowEqual(IF takesParameters(cmds, k) THEN cmds[k + 2].params ELSE EmptyMap,
                    segment.parameters)

\* the walk stops after n segments: the segments are consumed, the commands have
\* run out, the command is an outlets command, or the segment differs
walkStops(g, index, cmds, n) ==
    LET k == commandIndexAfter(cmds, n)
    IN  \/ index + n >= Len(g.segments)
        \/ k >= Len(cmds)
        \/ isCommandWithOutlets(cmds[k + 1])
        \/ ~agrees(cmds, k, g.segments[index + n + 1])

\* what the lockstep walk of the segments of g from index and of cmds from 0 reports
lockstep(g, index, cmds) ==
    LET n == CHOOSE n \in 0..Len(g.segments) :
                 /\ walkStops(g, index, cmds, n)
                 /\ \A j \in 0..(n - 1) : ~walkStops(g, index, cmds, j)
        k == commandIndexAfter(cmds, n)
        reached == [match |-> TRUE, pathIndex |-> index + n, commandIndex |-> k]
    IN  IF index + n >= Len(g.segments) THEN reached
        ELSE IF k >= Len(cmds) THEN [reached EXCEPT !.match = FALSE]
        ELSE IF isCommandWithOutlets(cmds[k + 1]) THEN reached
        ELSE [reached EXCEPT !.match = FALSE]

\* C18: prefixedWith reports what the lockstep walk of the segments from the start
\* index and of the commands from 0 reports: no match when the commands run out
\* before the segments or when a segment's path or parameters differ from the
\* command and the plain object taken with it; a match, with the path index and the
\* command index reached, at an outlets command or when the segments are consumed.
\* This holds of every group of the tree with every sub-list of the normalised
\* commands and every start index.
C18_PrefixMatch ==
    Normalised =>
        \A g \in groupsOf(inputRoot) : \A cmds \in infixes(out.nav.commands) :
        \A i \in 0..Len(g.segments) :
            LET m == prefixedWith(g, i, cmds)
                walked == lockstep(g, i, cmds)
            IN  /\ m.match = walked.match
                /\ m.match => m = walked

C18_Witness ==
    /\ UpdatedAsGroup
    /\ inputRoot = TreeAux /\ out.position.segmentGroup.id = 2
    /\ out.position.index = 0
    /\ Len(out.nav.commands) = 2
    /\ prefixedWith(out.position.segmentGroup, 0, out.nav.commands)
           = [match |-> TRUE, pathIndex |-> 1, commandIndex |-> 2]
    /\ ~prefixedWith(out.position.segmentGroup, 0, <<out.nav.commands[1]>>).match

\* g split at pathIndex: the segments before it, and the rest with the children of
\* g as primary child
splitAt(g, pathIndex) ==
    UrlSegmentGroup(slice(g.segments, 0, pathIndex),
                    PRIMARY_OUTLET :> UrlSegmentGroup(
                        slice(g.segments, pathIndex, Len(g.segments)), g.children))

\* updateSegmentGroup runs the prefix match on g, and the match stops before the
\* last segment
matchStopsEarly(g, index, cmds) ==
    /\ ~(Len(g.segments) = 0 /\ hasChildren(g))
    /\ prefixedWith(g, index, cmds).match
    /\ prefixedWith(g, index, cmds).pathIndex < Len(g.segments)

\* new is g split where the match stopped, with the commands not consumed applied
\* to the split group by outlet-children processing at index 0
isSplitAndProcessed(g, index, cmds, new) ==
    LET m == prefixedWith(g, index, cmds)
        rest == slice(cmds, m.commandIndex, Len(cmds))
    IN  /\ new.segments = slice(g.segments, 0, m.pathIndex)
        /\ childrenProcessed(splitAt(g, m.pathIndex), 0, rest, new)
        /\ (rest # <<>> /\ PRIMARY_OUTLET \notin DOMAIN getOutlets(rest)) =>
               /\ new.children[PRIMARY_OUTLET].segments
                      = slice(g.segments, m.pathIndex, Len(g.segments))
               /\ new.children[PRIMARY_OUTLET].children = g.children

\* C19: when the prefix match of updateSegmentGroup succeeds with a path index
\* below the number of segments, a result is the group split at that index (the
\* segments before it in the parent, the other segments with the children of the
\* group as primary child) after outlet-children processing at index 0 with the
\* commands not consumed. This holds of every group of the tree with every sub-list
\* of the normalised commands and every start index, and of the new subtree of a
\* call resolved at such a group.
C19_EarlyMatchSplits ==
    Normalised =>
        /\ \A g \in groupsOf(inputRoot) : \A cmds \in infixes(out.nav.commands) :
           \A i \in 0..Len(g.segments) :
               matchStopsEarly(g, i, cmds) =>
                   LET updated == updateSegmentGroup(g, i, cmds)
                   IN  updated.threw = "none" =>
                           isSplitAndProcessed(g, i, cmds, updated.g)
        /\ (/\ UpdatedAsGroup /\ out.threw = "none"
            /\ matchStopsEarly(out.position.segmentGroup, out.position.index,
                               out.nav.commands)) =>
               isSplitAndProcessed(out.position.segmentGroup, out.position.index,
                                   out.nav.commands, out.newSegmentGroup)

C19_Witness ==
    /\ UpdatedAsGroup /\ out.threw = "none"
    /\ inputRoot = TreeTeam /\ out.position.segmentGroup.id = 2
    /\ matchStopsEarly(out.position.segmentGroup, out.position.index, out.nav.commands)
    /\ out.newSegmentGroup.segments = <<Seg("team")>>
    /\ DOMAIN out.newSegmentGroup.children = {PRIMARY_OUTLET}
    /\ out.newSegmentGroup.children[PRIMARY_OUTLET].segments = <<Seg("33")>>
    /\ {c.id : c \in groupsOf(out.newSegmentGroup.children[PRIMARY_OUTLET])} = {0, 3, 4}

\* the navigation of the call made is absolute and its one command is '/'
onlyRootMarker ==
    /\ Normalised
    /\ out.nav.isAbsolute
    /\ out.nav.commands = <<StringCmd(<<"", "">>)>>

\* the call made returned a tree whose root has no segments and no children
emptyRootReturned ==
    /\ out.threw = "none"
    /\ out.tree.root.segments = <<>>
    /\ ~hasChildren(out.tree.root)

\* C20: toRoot() holds of the navigation of a call iff the navigation is absolute
\* and its normalised commands are the one command '/'; every call whose navigation
\* is such, from any group of any tree and through either entry point, returns a
\* tree whose root has no segments and no children.
C20_ToRoot ==
    Normalised =>
        /\ toRoot(out.nav) <=> onlyRootMarker
        /\ toRoot(out.nav) => emptyRootReturned

C20_Witness ==
    /\ Normalised /\ toRoot(out.nav)
    /\ Len(commands) = 2
    /\ inputRoot = TreeAux /\ relativeTo.id = 4
    /\ call.fn = "createUrlTree"
    /\ emptyRootReturned

\* the raw commands are path strings, matrix-parameter objects and outlets objects
plainCommandKinds ==
    \A i \in 1..Len(commands) : commands[i].kind \in {"string", "matrix", "outlets"}

\* the errors the builder raises on purpose
DeclaredErrors == {"RootSegmentMatrixParams", "MisplacedOutletsCommand", "InvalidDoubleDots"}

\* C21: a call with path strings, matrix-parameter objects and outlets objects, from
\* any group of any tree, either returns a tree or raises one of
\* RootSegmentMatrixParams, MisplacedOutletsCommand and InvalidDoubleDots, and it
\* returns a tree exactly when it raises nothing.
C21_OnlyDeclaredErrors ==
    (Done /\ plainCommandKinds) =>
        /\ out.threw \in DeclaredErrors \cup {"none"}
        /\ out.threw = "none" <=> out.tree # NoTree

\* the call made resolved a position
PositionResolved == Normalised /\ out.position.segmentGroup # NoGroup

\* the number of groups above g
levelsAbove(root, g) == Cardinality(ancestorsOrSelf(root, g)) - 1

\* the levels between the anchor and the group of the position of the call made
levelsClimbed ==
    levelsAbove(inputRoot, relativeTo) - levelsAbove(inputRoot, out.position.segmentGroup)

\* C22: the position a call resolves is at the anchor or at one of its ancestors,
\* its index is at least 0 and at most the number of segments of its group, and in a
\* relative call its group is at most as many levels above the anchor as the
\* commands have '..' tokens.
C22_PositionWithinBounds ==
    PositionResolved =>
        /\ out.position.segmentGroup \in ancestorsOrSelf(inputRoot, relativeTo)
        /\ out.position.index >= 0
        /\ out.position.index <= Len(out.position.segmentGroup.segments)
        /\ ~out.nav.isAbsolute => levelsClimbed <= requestedDoubleDots(commands)

\* the groups the position of the call made left behind: the anchor and its
\* ancestors below the group of the position
leftBehind ==
    ancestorsOrSelf(inputRoot, relativeTo)
        \ ancestorsOrSelf(inputRoot, out.position.segmentGroup)

\* C22, amended: the position a call resolves is at the anchor or at one of its
\* ancestors, and its index is at least 0 and at most the number of segments of its
\* group, also from an anchor without segments with a matrix-parameter object first.
\* '..' tokens count segments, not levels: in a relative call the group is at most
\* as many levels above the anchor as the commands have '..' tokens plus the groups
\* without segments left behind, and with no '..' token the position is above the
\* anchor exactly when the start index is -1.
C22_PositionBounds ==
    PositionResolved =>
        /\ out.position.segmentGroup \in ancestorsOrSelf(inputRoot, relativeTo)
        /\ out.position.index >= 0
        /\ out.position.index <= Len(out.position.segmentGroup.segments)
        /\ ~out.nav.isAbsolute =>
               /\ levelsClimbed <= out.nav.numberOfDoubleDots
                      + Cardinality({g \in leftBehind : Len(g.segments) = 0})
               /\ out.nav.numberOfDoubleDots = 0 =>
                      (levelsClimbed > 0 <=>
                           (startIndex < 0 /\ ~anchorIsRoot /\ FromSegmentGroup))

C22_Witness ==
    /\ PositionResolved /\ ~out.nav.isAbsolute
    /\ Len(relativeTo.segments) = 0 /\ isMatrixParams(commands[1])
    /\ startIndex = 0 - 1
    /\ out.nav.numberOfDoubleDots = 0
    /\ levelsClimbed = 1
    /\ out.position.index = 0

\* the call made is an absolute navigation that does not go to the root and whose
\* normalised commands are all path strings
AbsolutePaths ==
    /\ Normalised
    /\ out.nav.isAbsolute
    /\ ~toRoot(out.nav)
    /\ \A i \in 1..Len(out.nav.commands) : out.nav.commands[i].kind = "string"

\* the outlets of the old root other than the primary one
secondaryOutlets == DOMAIN inputRoot.children \ {PRIMARY_OUTLET}

\* every child of the old root under a secondary outlet is, under the same outlet,
\* in the root of the tree returned, structurally unchanged
secondaryOutletsKept ==
    /\ out.threw = "none"
    /\ \A o \in secondaryOutlets :
           /\ o \in DOMAIN out.tree.root.children
           /\ structure(out.tree.root.children[o]) = structure(inputRoot.children[o])

====
